---------------------------- MODULE Spec2Model ----------------------------
(***************************************************************************)
(* A model of the QR decomposition engine (headers/decomposition/QR.h), of  *)
(* the constraint residuals (headers/ErrorFunctions.h) and of the graph    *)
(* container (headers/graph/Graph.h).                                      *)
(*                                                                         *)
(* Numbers.  The code computes in double; the model computes in exact real *)
(* arithmetic, so that "Q*R = A" and "Q^T*Q = I" can be decided and the    *)
(* 1e-10 and 1e-8 tolerances of the code keep their meaning.  A number is  *)
(* the record [n, d, r, e] that stands for                                 *)
(*                                                                         *)
(*        (n / d) * sqrt(r) * 10^(-e)                                      *)
(*                                                                         *)
(* with d > 0, gcd(n, d) = 1, r a square-free positive integer, and zero   *)
(* written [0, 1, 1, 0] only; every number has one representation, so the  *)
(* exact comparison of doubles (==) is equality of records.  Every value   *)
(* Gram-Schmidt computes from a matrix of decimal-scaled integers has this *)
(* form.  A sum of two non-zero numbers with different radicands has not:  *)
(* NumAdd returns it unevaluated, as [sum |-> <<x, y>>], and no arithmetic *)
(* is defined on such a sum (TLC stops with an error if any is asked for;  *)
(* none is, in any reachable state).  Rounding is not modelled.            *)
(***************************************************************************)
EXTENDS Integers, Sequences, FiniteSets, TLC

VARIABLES
    built,   \* whether the QR object exists (its constructor returned)
    _A,      \* QR::_A
    _Q,      \* QR::_Q
    _R,      \* QR::_R
    made,    \* whether the ErrorFunctions object exists
    m_X,     \* ErrorFunctions::m_X, the unknowns it depends on
    c_f,     \* ErrorFunctions::c_f, the expression it owns, or NullPtr
    val,     \* the current value of every Variable, owned by the caller
    constructed,     \* whether the Graph object exists
    isDirected,      \* DirectedPolicyType::isDirected of the Graph
    isWeighted,      \* WeightedPolicyType::isWeighted of the Graph
    _vertices,       \* Graph::_vertices
    _adjacencyList,  \* Graph::_adjacencyList: vertex -> vector of edges
    liveEdges,       \* history: the edges added and not removed since
    op,      \* the operation called last
    arg,     \* its argument
    ret,     \* the value it returned
    fault    \* the exception it threw or the crash it ended in, or NoFault

qrVars == <<built, _A, _Q, _R>>
efVars == <<made, m_X, c_f, val>>
grVars == <<constructed, isDirected, isWeighted, _vertices, _adjacencyList, liveEdges>>
vars == <<built, _A, _Q, _R, made, m_X, c_f, val,
          constructed, isDirected, isWeighted, _vertices, _adjacencyList, liveEdges,
          op, arg, ret, fault>>

(***************************************************************************)
(* Bounds of the model.                                                    *)
(***************************************************************************)
\* the largest number of rows of an input matrix
MaxRows == 2
\* the largest number of columns of an input matrix
MaxCols == 2
\* the entries of an input matrix are the integers -1 .. MaxEntry, each
\* column scaled by 1 or by 10^-TinyExp
MaxEntry == 2
\* a decimal exponent that puts a column below the 1e-10 tolerance
TinyExp == 11
\* the values of a Variable and the targets of a residual are 0 .. MaxValue
MaxValue == 1
\* the vertices a caller uses are 1 .. MaxVertex
MaxVertex == 2
\* the weights a caller passes are 0 .. MaxWeight, 0 being WeightType()
MaxWeight == 1

(***************************************************************************)
(* Program constants.                                                      *)
(***************************************************************************)
\* normVec > 1e-10 (qrCGS) and epsilon = 1e-10 (qrMGS): the exponent
EpsExp == 10

(***************************************************************************)
(* Integer helpers.                                                        *)
(***************************************************************************)
Abs(x) == IF x < 0 THEN -x ELSE x

\* the greatest common divisor of a, b >= 0
RECURSIVE GcdNat(_, _)
GcdNat(a, b) == IF b = 0 THEN a ELSE GcdNat(b, a % b)

Gcd(a, b) == GcdNat(Abs(a), Abs(b))

\* the largest k >= from whose square divides x (x > 0), searching upwards
RECURSIVE SquarePartFrom(_, _, _)
SquarePartFrom(x, k, best) ==
    IF k * k > x THEN best
    ELSE SquarePartFrom(x, k + 1, IF x % (k * k) = 0 THEN k ELSE best)

SquarePart(x) == SquarePartFrom(x, 2, 1)

\* p * 10^k > q, for integers p, q >= 0 and any integer k, without ever
\* forming a power of ten larger than it has to
RECURSIVE GtPow10(_, _, _)
GtPow10(p, q, k) ==
    IF p = 0 THEN FALSE
    ELSE IF k = 0 THEN p > q
    ELSE IF k > 0 THEN (IF p > q THEN TRUE ELSE GtPow10(10 * p, q, k - 1))
    ELSE (IF q >= p THEN FALSE ELSE GtPow10(p, 10 * q, k + 1))

RECURSIVE Pow10(_)
Pow10(k) == IF k = 0 THEN 1 ELSE 10 * Pow10(k - 1)

(***************************************************************************)
(* double, in exact arithmetic.                                            *)
(***************************************************************************)
Zero == [n |-> 0, d |-> 1, r |-> 1, e |-> 0]
One == [n |-> 1, d |-> 1, r |-> 1, e |-> 0]

\* the number (n / d) * sqrt(r) * 10^(-e), r square-free, in normal form
MkNum(n, d, r, e) ==
    IF n = 0 THEN Zero
    ELSE LET g == Gcd(n, d)
             s == IF d < 0 THEN -1 ELSE 1
         IN  [n |-> s * (n \div g), d |-> s * (d \div g), r |-> r, e |-> e]

\* the integer k scaled by 10^(-e)
Scaled(k, e) == MkNum(k, 1, 1, e)

Int2Num(k) == Scaled(k, 0)

NumNeg(x) == [x EXCEPT !.n = -x.n]

\* x + y
NumAdd(x, y) ==
    CASE x.n = 0 -> y
      [] y.n = 0 -> x
      [] x.n # 0 /\ y.n # 0 /\ x.r = y.r /\ x.e = y.e ->
            MkNum(x.n * y.d + y.n * x.d, x.d * y.d, x.r, x.e)
      [] x.n # 0 /\ y.n # 0 /\ x.r = y.r /\ x.e < y.e ->
            MkNum(x.n * Pow10(y.e - x.e) * y.d + y.n * x.d, x.d * y.d, x.r, y.e)
      [] x.n # 0 /\ y.n # 0 /\ x.r = y.r /\ x.e > y.e ->
            MkNum(x.n * y.d + y.n * Pow10(x.e - y.e) * x.d, x.d * y.d, x.r, x.e)
      [] x.n # 0 /\ y.n # 0 /\ x.r < y.r -> [sum |-> <<x, y>>]
      [] x.n # 0 /\ y.n # 0 /\ x.r > y.r -> [sum |-> <<y, x>>]

NumSub(x, y) == NumAdd(x, NumNeg(y))

\* x * y: sqrt(a) * sqrt(b) = g * sqrt((a / g) * (b / g)), g = gcd(a, b)
NumMul(x, y) ==
    LET g == Gcd(x.r, y.r)
    IN  MkNum(x.n * y.n * g, x.d * y.d, (x.r \div g) * (y.r \div g), x.e + y.e)

\* x / y for y # 0: 1 / sqrt(r) = sqrt(r) / r
NumDiv(x, y) ==
    NumMul(x, MkNum(y.d, y.n * y.r, y.r, -y.e))

\* sqrt(x) for a rational x >= 0: with x = (a^2 p) / (b^2 q) * 10^(-2f),
\* sqrt(x) = a / (b q) * sqrt(p q) * 10^(-f)
NumSqrt(x) ==
    IF x.n = 0 THEN Zero
    ELSE LET odd == (x.e % 2) # 0
             n == IF odd THEN 10 * x.n ELSE x.n
             e == IF odd THEN x.e + 1 ELSE x.e
             g == Gcd(n, x.d)
             nn == n \div g
             dd == x.d \div g
             a == SquarePart(nn)
             b == SquarePart(dd)
             p == nn \div (a * a)
             q == dd \div (b * b)
         IN  MkNum(a, b * q, p * q, e \div 2)

\* x > 10^(-k) for x >= 0: x^2 = n^2 r / d^2 * 10^(-2e) > 10^(-2k)
NumGtPow10(x, k) == GtPow10(x.n * x.n * x.r, x.d * x.d, 2 * k - 2 * x.e)

(***************************************************************************)
(* Matrix<>: the dense matrix of doubles QR.h is written against.  A       *)
(* matrix is [rows, cols, a], a[i][j] its entry in row i, column j, both   *)
(* counted from 1 (the code counts from 0).                                *)
(***************************************************************************)
\* Matrix<>(): the empty matrix a QR holds in _Q and _R before a decomposition
EmptyMatrix == [rows |-> 0, cols |-> 0, a |-> << >>]

\* Matrix<>(m, n): m x n, zero-filled
ZeroMatrix(m, n) ==
    [rows |-> m, cols |-> n, a |-> [i \in 1..m |-> [j \in 1..n |-> Zero]]]

\* Matrix<>::identity(n)
Identity(n) ==
    [rows |-> n, cols |-> n,
     a |-> [i \in 1..n |-> [j \in 1..n |-> IF i = j THEN One ELSE Zero]]]

\* M.getCol(j): column j as a vector indexed 1..rows
GetCol(M, j) == [k \in 1..M.rows |-> M.a[k][j]]

\* M.setCol(v, j)
SetCol(M, v, j) ==
    [M EXCEPT !.a = [k \in 1..M.rows |-> [M.a[k] EXCEPT ![j] = v[k]]]]

\* M(i, j) = x
SetAt(M, i, j, x) == [M EXCEPT !.a[i][j] = x]

\* M.transpose()
Transpose(M) ==
    [rows |-> M.cols, cols |-> M.rows,
     a |-> [i \in 1..M.cols |-> [j \in 1..M.rows |-> M.a[j][i]]]]

\* sum over k = 1..len of f[k], accumulated from 0.0 in index order
RECURSIVE SumTo(_, _)
SumTo(f, len) == IF len = 0 THEN Zero ELSE NumAdd(SumTo(f, len - 1), f[len])

\* the dot product of two vectors of length len
Dot(u, v, len) == SumTo([k \in 1..len |-> NumMul(u[k], v[k])], len)

\* X * Y, for X.cols = Y.rows
MatMul(X, Y) ==
    [rows |-> X.rows, cols |-> Y.cols,
     a |-> [i \in 1..X.rows |-> [j \in 1..Y.cols |->
              Dot(X.a[i], GetCol(Y, j), X.cols)]]]

Min(a, b) == IF a < b THEN a ELSE b

\* normVec = sqrt(sum over k of u[k] * u[k])
Norm(u, len) == NumSqrt(Dot(u, u, len))

\* normVec > 1e-10
AboveEps(normVec) == NumGtPow10(normVec, EpsExp)

(***************************************************************************)
(* QR::qrCGS, Classical Gram-Schmidt.  The loops of the code are the       *)
(* recursions below, with the loop variables as their arguments; i and j   *)
(* count from 1.                                                           *)
(***************************************************************************)
\* qrCGS with the projection added to u instead of taken off it
RECURSIVE CGSProjectAdds(_, _, _, _, _, _, _)
CGSProjectAdds(v, u, Q, R, m, i, j) ==
    IF ~(j <= Q.cols /\ j < i) THEN [u |-> u, R |-> R]
    ELSE LET e_j == GetCol(Q, j)
             proj_scalar == Dot(v, e_j, m)
         IN  CGSProjectAdds(v,
                        [k \in 1..m |-> NumAdd(u[k], NumMul(proj_scalar, e_j[k]))],
                        Q, SetAt(R, j, i, proj_scalar), m, i, j + 1)

\* qrCGS with the indices of R exchanged: the projection goes to R(i, j)
RECURSIVE CGSProjectTransposed(_, _, _, _, _, _, _)
CGSProjectTransposed(v, u, Q, R, m, i, j) ==
    IF ~(j <= Q.cols /\ j < i) THEN [u |-> u, R |-> R]
    ELSE LET e_j == GetCol(Q, j)
             proj_scalar == Dot(v, e_j, m)
         IN  CGSProjectTransposed(v,
                        [k \in 1..m |-> NumSub(u[k], NumMul(proj_scalar, e_j[k]))],
                        Q, SetAt(R, i, j, proj_scalar), m, i, j + 1)

\* the inner loop "for j < min_mn && j < i" of column i, from j on: the
\* projection of the ORIGINAL column v on e_j goes to R(j, i) and is taken
\* off u.  Returns [u, R].
RECURSIVE CGSProject(_, _, _, _, _, _, _)
CGSProject(v, u, Q, R, m, i, j) ==
    IF ~(j <= Q.cols /\ j < i) THEN [u |-> u, R |-> R]
    ELSE LET e_j == GetCol(Q, j)
             proj_scalar == Dot(v, e_j, m)
         IN  CGSProject(v,
                        [k \in 1..m |-> NumSub(u[k], NumMul(proj_scalar, e_j[k]))],
                        Q, SetAt(R, j, i, proj_scalar), m, i, j + 1)

\* qrCGS with the division by normVec left out: column i of Q is u itself
CGSNormalizeUnscaled(u, Q, R, m, i) ==
    LET normVec == Norm(u, m)
    IN  IF AboveEps(normVec)
        THEN [Q |-> SetCol(Q, u, i), R |-> SetAt(R, i, i, normVec)]
        ELSE [Q |-> Q, R |-> SetAt(R, i, i, Zero)]

\* the body "if (i < min_mn)" of column i: normalise u into column i of Q,
\* or declare the column dependent.  Returns [Q, R].
CGSNormalize(u, Q, R, m, i) ==
    LET normVec == Norm(u, m)
    IN  IF AboveEps(normVec)
        THEN [Q |-> SetCol(Q, [k \in 1..m |-> NumDiv(u[k], normVec)], i),
              R |-> SetAt(R, i, i, normVec)]
        ELSE [Q |-> Q, R |-> SetAt(R, i, i, Zero)]

\* the outer loop "for i < n", from column i on.  Returns [Q, R].
RECURSIVE CGSFrom(_, _, _, _)
CGSFrom(A, Q, R, i) ==
    IF i > A.cols THEN [Q |-> Q, R |-> R]
    ELSE LET v_i == GetCol(A, i)
             p == CGSProject(v_i, v_i, Q, R, A.rows, i, 1)
             z == IF i <= Q.cols
                  THEN CGSNormalize(p.u, Q, p.R, A.rows, i)
                  ELSE [Q |-> Q, R |-> p.R]
         IN  CGSFrom(A, z.Q, z.R, i + 1)

\* qrCGS on A: the new [Q, R]
CGS(A) ==
    LET min_mn == Min(A.rows, A.cols)
    IN  CGSFrom(A, ZeroMatrix(A.rows, min_mn), ZeroMatrix(min_mn, A.cols), 1)

(***************************************************************************)
(* QR::qrMGS, Modified Gram-Schmidt.  V is the vector of the columns still *)
(* to be orthogonalised.                                                   *)
(***************************************************************************)
\* the loop "for k = j + 1; k < n" of the branch normVec > epsilon, from k
\* on: R(j, k) = q_j . V[k], V[k] -= R(j, k) * q_j.  Returns [V, R].
RECURSIVE MGSUpdate(_, _, _, _, _, _)
MGSUpdate(V, R, q_j, m, j, k) ==
    IF k > R.cols THEN [V |-> V, R |-> R]
    ELSE LET dotProduct == Dot(q_j, V[k], m)
         IN  MGSUpdate([V EXCEPT ![k] = [l \in 1..m |->
                            NumSub(V[k][l], NumMul(dotProduct, q_j[l]))]],
                       SetAt(R, j, k, dotProduct), q_j, m, j, k + 1)

\* the loop "for k = j + 1; k < n" of the else branch: R(j, k) = 0.0
RECURSIVE MGSClearRow(_, _, _)
MGSClearRow(R, j, k) ==
    IF k > R.cols THEN R ELSE MGSClearRow(SetAt(R, j, k, Zero), j, k + 1)

\* the outer loop "for j < min_mn", from j on.  Returns [Q, R].
RECURSIVE MGSFrom(_, _, _, _, _)
MGSFrom(V, Q, R, m, j) ==
    IF j > Q.cols THEN [Q |-> Q, R |-> R]
    ELSE LET normVec == Norm(V[j], m)
             R1 == SetAt(R, j, j, normVec)
         IN  IF AboveEps(normVec)
             THEN LET q_j == [k \in 1..m |-> NumDiv(V[j][k], normVec)]
                      w == MGSUpdate(V, R1, q_j, m, j, j + 1)
                  IN  MGSFrom(w.V, SetCol(Q, q_j, j), w.R, m, j + 1)
             ELSE MGSFrom(V, SetCol(Q, [k \in 1..m |-> Zero], j),
                          MGSClearRow(R1, j, j + 1), m, j + 1)

\* qrMGS on A: the new [Q, R]
MGS(A) ==
    LET min_mn == Min(A.rows, A.cols)
    IN  MGSFrom([i \in 1..A.cols |-> GetCol(A, i)],
                ZeroMatrix(A.rows, min_mn), ZeroMatrix(min_mn, A.cols),
                A.rows, 1)

(***************************************************************************)
(* Determinants, for Matrix<>::inverse() and for stating rank.             *)
(***************************************************************************)
\* M without row i and column j
Minor(M, i, j) ==
    [rows |-> M.rows - 1, cols |-> M.cols - 1,
     a |-> [p \in 1..(M.rows - 1) |-> [q \in 1..(M.cols - 1) |->
              M.a[IF p < i THEN p ELSE p + 1][IF q < j THEN q ELSE q + 1]]]]

\* the determinant of a square matrix, by expansion along the first row
RECURSIVE Det(_)
Det(M) ==
    IF M.rows = 0 THEN One
    ELSE SumTo([j \in 1..M.cols |->
                  LET c == NumMul(M.a[1][j], Det(Minor(M, 1, j)))
                  IN  IF j % 2 = 1 THEN c ELSE NumNeg(c)], M.cols)

\* whether M.inverse() throws: M is not square, or is singular
InverseFaults(M) == M.rows # M.cols \/ Det(M) = Zero

(***************************************************************************)
(* Sums, for QR::pseudoInverse.  R(i,i) + 1e-8 is a sum of numbers with    *)
(* different radicands, or too far apart in size to be put over one        *)
(* denominator, and its inverse is a quotient of such sums.  A sum is a    *)
(* set of terms [c, k, t], the term standing for                           *)
(*                                                                         *)
(*        c * (10^-RegExp)^k * (10^-TinyExp)^t                             *)
(*                                                                         *)
(* with c a number other than zero whose denominator is prime to ten and   *)
(* whose numerator is no multiple of ten, and no two terms of a sum with   *)
(* the same radicand, k and t; the empty set is 0.  Two sums with the same *)
(* terms are the same number, and a sum whose terms all have one sign has  *)
(* that sign; the properties below rely on nothing else.  A quotient is    *)
(* kept as its numerator and its denominator.                              *)
(***************************************************************************)
\* the 1e-8 that pseudoInverse multiplies the identity by: the exponent
RegExp == 8

\* x with the factors 2 and 5 of x.d and the factors of ten of x.n moved
\* into x.e: n / (2 d) = 5 n / d / 10 and n / (5 d) = 2 n / d / 10
RECURSIVE Norm10(_)
Norm10(x) ==
    IF x.n = 0 THEN Zero
    ELSE IF x.d % 2 = 0
         THEN Norm10(MkNum(5 * x.n, x.d \div 2, x.r, x.e + 1))
    ELSE IF x.d % 5 = 0
         THEN Norm10(MkNum(2 * x.n, x.d \div 5, x.r, x.e + 1))
    ELSE IF Abs(x.n) % 10 = 0
         THEN Norm10([x EXCEPT !.n = x.n \div 10, !.e = x.e - 1])
    ELSE x

\* the elements of a finite set, in some order
RECURSIVE SeqOfSet(_)
SeqOfSet(S) ==
    IF S = {} THEN << >>
    ELSE LET x == CHOOSE y \in S : TRUE IN <<x>> \o SeqOfSet(S \ {x})

Term(c, k, t) == [c |-> c, k |-> k, t |-> t]

\* the number a term stands for
TermNum(x) == MkNum(x.c.n, x.c.d, x.c.r, x.c.e + RegExp * x.k + TinyExp * x.t)

\* the sum of the coefficients of those of s[1], ..., s[len] that have
\* radicand r and powers k and t
RECURSIVE CoefSum(_, _, _, _, _)
CoefSum(s, r, k, t, len) ==
    IF len = 0 THEN Zero
    ELSE LET rest == CoefSum(s, r, k, t, len - 1)
         IN  IF s[len].c.r = r /\ s[len].k = k /\ s[len].t = t
             THEN NumAdd(rest, s[len].c) ELSE rest

\* the sum of the terms s[1], ..., s[Len(s)]
Canon(s) ==
    {x \in {Term(Norm10(CoefSum(s, s[i].c.r, s[i].k, s[i].t, Len(s))), s[i].k, s[i].t) :
              i \in 1..Len(s)} : x.c # Zero}

\* the number x as a sum: the powers of 10^-TinyExp in it become t
TermsOf(x) ==
    IF x.e < TinyExp THEN Canon(<<Term(x, 0, 0)>>)
    ELSE Canon(<<Term([x EXCEPT !.e = x.e % TinyExp], 0, x.e \div TinyExp)>>)

\* p + q
SumAdd(p, q) == Canon(SeqOfSet(p) \o SeqOfSet(q))

\* -p
SumNeg(p) == {Term(NumNeg(x.c), x.k, x.t) : x \in p}

\* p * q
SumMul(p, q) ==
    LET pairs == SeqOfSet(p \X q)
    IN  Canon([i \in 1..Len(pairs) |->
                 Term(NumMul(pairs[i][1].c, pairs[i][2].c),
                      pairs[i][1].k + pairs[i][2].k,
                      pairs[i][1].t + pairs[i][2].t)])

\* p > 0, decided by the signs of the terms
Positive(p) == p # {} /\ \A x \in p : x.c.n > 0

\* f[1] + ... + f[len], f a sequence of sums
RECURSIVE SumUp(_, _)
SumUp(f, len) == IF len = 0 THEN {} ELSE SumAdd(SumUp(f, len - 1), f[len])

\* the matrix M of numbers as a matrix of sums
Lift(M) ==
    [rows |-> M.rows, cols |-> M.cols,
     a |-> [i \in 1..M.rows |-> [j \in 1..M.cols |-> TermsOf(M.a[i][j])]]]

\* X * Y for matrices of sums, X.cols = Y.rows
SumMatMul(X, Y) ==
    [rows |-> X.rows, cols |-> Y.cols,
     a |-> [i \in 1..X.rows |-> [j \in 1..Y.cols |->
              SumUp([k \in 1..X.cols |-> SumMul(X.a[i][k], Y.a[k][j])], X.cols)]]]

\* the matrix X of sums, every entry multiplied by the sum p
SumScale(p, X) ==
    [rows |-> X.rows, cols |-> X.cols,
     a |-> [i \in 1..X.rows |-> [j \in 1..X.cols |-> SumMul(p, X.a[i][j])]]]

\* the determinant of a square matrix of sums, by expansion along the first
\* row
RECURSIVE SumDet(_)
SumDet(M) ==
    IF M.rows = 0 THEN TermsOf(One)
    ELSE SumUp([j \in 1..M.cols |->
                  LET c == SumMul(M.a[1][j], SumDet(Minor(M, 1, j)))
                  IN  IF j % 2 = 1 THEN c ELSE SumNeg(c)], M.cols)

\* the adjugate of a square matrix of sums: M * Adjugate(M) = det(M) * I
Adjugate(M) ==
    [rows |-> M.rows, cols |-> M.cols,
     a |-> [i \in 1..M.rows |-> [j \in 1..M.cols |->
              LET c == SumDet(Minor(M, j, i))
              IN  IF (i + j) % 2 = 0 THEN c ELSE SumNeg(c)]]]

\* whether M.inverse() throws, for a matrix of sums
SumInverseFaults(M) == M.rows # M.cols \/ SumDet(M) = {}

\* M.inverse() for a square, non-singular matrix of sums: the matrix whose
\* entries are a[i][j] / den
SumInverse(M) ==
    [rows |-> M.rows, cols |-> M.cols, a |-> Adjugate(M).a, den |-> SumDet(M)]

(***************************************************************************)
(* The QR object and its callers.                                          *)
(***************************************************************************)
NoFault == "none"
\* no argument, no return value
NoValue == [void |-> TRUE]
RuntimeError == "std::runtime_error: Matrix should be: rows > 0 && cols > 0"
InverseError == "Matrix::inverse: not square or singular"

\* the m x n matrix of the integers f[i][j], column t (if any) scaled by
\* 10^-TinyExp
InputMatrix(m, n, f, t) ==
    [rows |-> m, cols |-> n,
     a |-> [i \in 1..m |-> [j \in 1..n |->
              Scaled(f[i][j], IF j = t THEN TinyExp ELSE 0)]]]

Entries == (-1)..MaxEntry

\* the matrices a caller constructs a QR from, those with no row or no
\* column included
InputMatrices ==
    UNION {{InputMatrix(m, n, f, t) : f \in [1..m -> [1..n -> Entries]], t \in 0..n} :
             m \in 0..MaxRows, n \in 0..MaxCols}

\* the right-hand sides b of solve: one column, as many rows as _A
RightHandSides(m) ==
    {InputMatrix(m, 1, f, 0) : f \in [1..m -> [1..1 -> 0..MaxEntry]]}

\* the Variables of the caller: four that the residuals are built over and
\* one that none of them depends on
Unknowns == 1..5

NullPtr == [null |-> TRUE]

\* nothing has been constructed
Init ==
    /\ built = FALSE
    /\ _A = EmptyMatrix
    /\ _Q = EmptyMatrix
    /\ _R = EmptyMatrix
    /\ made = FALSE
    /\ m_X = << >>
    /\ c_f = NullPtr
    /\ val = [u \in Unknowns |-> 0]
    /\ constructed = FALSE
    /\ isDirected = FALSE
    /\ isWeighted = FALSE
    /\ _vertices = {}
    /\ _adjacencyList = << >>
    /\ liveEdges = {}
    /\ op = "none"
    /\ arg = NoValue
    /\ ret = NoValue
    /\ fault = NoFault

\* the test with && for ||
DegenerateBoth(M) == M.rows < 1 /\ M.cols < 1

\* the test of the constructor: _A.rows_size() < 1 || _A.cols_size() < 1
Degenerate(M) == M.rows < 1 \/ M.cols < 1

\* QR::QR(const Matrix<>& _A)
Construct(M) ==
    /\ ~built
    /\ op' = "QR"
    /\ arg' = M
    /\ ret' = NoValue
    /\ IF Degenerate(M)
       THEN /\ fault' = RuntimeError
            /\ UNCHANGED <<built, _A, _Q, _R>>
       ELSE /\ fault' = NoFault
            /\ built' = TRUE
            /\ _A' = M
            /\ UNCHANGED <<_Q, _R>>
    /\ UNCHANGED efVars
    /\ UNCHANGED grVars

\* a decomposition that computes [Q, R] == z
Decompose(name, z) ==
    /\ built
    /\ op' = name
    /\ arg' = NoValue
    /\ ret' = NoValue
    /\ fault' = NoFault
    /\ _Q' = z.Q
    /\ _R' = z.R
    /\ UNCHANGED <<built, _A>>
    /\ UNCHANGED efVars
    /\ UNCHANGED grVars

\* QR::qrCGS()
qrCGS == Decompose("qrCGS", CGS(_A))

\* QR::qr()
qr == Decompose("qr", CGS(_A))

\* QR::qrMGS()
qrMGS == Decompose("qrMGS", MGS(_A))

\* the strategies with an empty body
Unimplemented ==
    {"qrIGS", "qrBGS", "qrRGS", "qrCGSP", "qrHouseholder", "qrGivens"}

\* QR::qrIGS(), qrBGS(), qrRGS(), qrCGSP(), qrHouseholder(), qrGivens()
EmptyBody(name) ==
    /\ built
    /\ op' = name
    /\ arg' = NoValue
    /\ ret' = NoValue
    /\ fault' = NoFault
    /\ UNCHANGED qrVars
    /\ UNCHANGED efVars
    /\ UNCHANGED grVars

\* a decomposition has been run: _Q is no longer the empty matrix
Decomposed == _Q.rows > 0

\* QR::solve(b), called after a decomposition: Q^T * b is formed, R.inverse()
\* is evaluated and dropped by the comma operator, Q^T * b is returned
Solve(b) ==
    /\ built
    /\ Decomposed
    /\ op' = "solve"
    /\ arg' = b
    /\ IF InverseFaults(_R)
       THEN fault' = InverseError /\ ret' = NoValue
       ELSE fault' = NoFault /\ ret' = MatMul(Transpose(_Q), b)
    /\ UNCHANGED qrVars
    /\ UNCHANGED efVars
    /\ UNCHANGED grVars

\* X + Y for matrices of sums.  The result has the shape of X; where Y has
\* no entry (the shapes differ) nothing is added
SumMatAdd(X, Y) ==
    [rows |-> X.rows, cols |-> X.cols,
     a |-> [i \in 1..X.rows |-> [j \in 1..X.cols |->
              IF i <= Y.rows /\ j <= Y.cols
              THEN SumAdd(X.a[i][j], Y.a[i][j]) ELSE X.a[i][j]]]]

\* pseudoInverse without the regularisation: R is _R itself
Unregularized(M) == Lift(M)

\* _R + Matrix<>::identity(_R.rows_size()) * 1e-8
Regularized(M) ==
    SumMatAdd(Lift(M), SumScale({Term(One, 1, 0)}, Lift(Identity(M.rows))))

\* QR::pseudoInverse(), called after a decomposition: R = _R + 1e-8 * I,
\* R_inv = R.inverse(), the result R_inv * _Q.transpose().  The result is
\* the matrix of the quotients a[i][j] / den.  (What it prints is left out.)
PseudoInverse ==
    /\ built
    /\ Decomposed
    /\ op' = "pseudoInverse"
    /\ arg' = NoValue
    /\ LET R == Regularized(_R)
       IN  IF SumInverseFaults(R)
           THEN fault' = InverseError /\ ret' = NoValue
           ELSE LET R_inv == SumInverse(R)
                    product == SumMatMul(R_inv, Lift(Transpose(_Q)))
                IN  /\ fault' = NoFault
                    /\ ret' = [rows |-> product.rows, cols |-> product.cols,
                               a |-> product.a, den |-> R_inv.den]
    /\ UNCHANGED qrVars
    /\ UNCHANGED efVars
    /\ UNCHANGED grVars

NextQR ==
    \/ \E M \in InputMatrices : Construct(M)
    \/ qr
    \/ qrCGS
    \/ qrMGS
    \/ \E name \in Unimplemented : EmptyBody(name)
    \/ \E b \in RightHandSides(_A.rows) : Solve(b)
    \/ PseudoInverse

SpecQR == Init /\ [][NextQR]_vars

(***************************************************************************)
(* Function: the expression nodes a residual is built from, with           *)
(* evaluate() and derivative(var).  An expression is a record with its     *)
(* kind in the field t.                                                    *)
(***************************************************************************)
Const(c) == [t |-> "const", c |-> c]
Var(v) == [t |-> "var", v |-> v]
Sqrt(f) == [t |-> "sqrt", f |-> f]
Add(l, r) == [t |-> "add", l |-> l, r |-> r]
Sub(l, r) == [t |-> "sub", l |-> l, r |-> r]
Mul(l, r) == [t |-> "mul", l |-> l, r |-> r]
Div(l, r) == [t |-> "div", l |-> l, r |-> r]

\* a double that is not a finite number: NaN or an infinity
NonFinite == [n |-> 0, d |-> 0, r |-> 1, e |-> 0]

\* x / y in double: 0/0 is NaN and x/0 an infinity, neither is a fault
DoubleDiv(x, y) ==
    IF x = NonFinite \/ y = NonFinite \/ y = Zero THEN NonFinite
    ELSE NumDiv(x, y)

\* an operation of double other than the division: a NaN or an infinity in,
\* a NaN or an infinity out
Finite2(x, y, z) == IF x = NonFinite \/ y = NonFinite THEN NonFinite ELSE z

\* f->derivative(var): the derivative of f with respect to u, built by the
\* sum, product, quotient and chain rules
RECURSIVE Deriv(_, _)
Deriv(f, u) ==
    CASE f.t = "const" -> Const(0)
      [] f.t = "var" -> IF f.v = u THEN Const(1) ELSE Const(0)
      [] f.t = "sqrt" -> Div(Deriv(f.f, u), Mul(Const(2), Sqrt(f.f)))
      [] f.t = "add" -> Add(Deriv(f.l, u), Deriv(f.r, u))
      [] f.t = "sub" -> Sub(Deriv(f.l, u), Deriv(f.r, u))
      [] f.t = "mul" -> Add(Mul(Deriv(f.l, u), f.r), Mul(f.l, Deriv(f.r, u)))
      [] f.t = "div" -> Div(Sub(Mul(Deriv(f.l, u), f.r), Mul(f.l, Deriv(f.r, u))),
                            Mul(f.r, f.r))

\* f->evaluate() with the Variables valued by w
RECURSIVE Eval(_, _)
Eval(f, w) ==
    CASE f.t = "const" -> Int2Num(f.c)
      [] f.t = "var" -> Int2Num(w[f.v])
      [] f.t = "sqrt" ->
            LET x == Eval(f.f, w) IN IF x = NonFinite THEN NonFinite ELSE NumSqrt(x)
      [] f.t = "add" ->
            LET x == Eval(f.l, w) y == Eval(f.r, w) IN Finite2(x, y, NumAdd(x, y))
      [] f.t = "sub" ->
            LET x == Eval(f.l, w) y == Eval(f.r, w) IN Finite2(x, y, NumSub(x, y))
      [] f.t = "mul" ->
            LET x == Eval(f.l, w) y == Eval(f.r, w) IN Finite2(x, y, NumMul(x, y))
      [] f.t = "div" -> DoubleDiv(Eval(f.l, w), Eval(f.r, w))

Square(f) == Mul(f, f)

(***************************************************************************)
(* The residuals: ErrorFunctions and the kinds built on it.  x is the list *)
(* of the Variables of a residual, d its target.                           *)
(***************************************************************************)
\* PointPointDistanceError(x, error): sqrt((x2-x1)^2 + (y2-y1)^2) - d over
\* x = (x1, y1, x2, y2)
PointPointDistance(x, d) ==
    Sub(Sqrt(Add(Square(Sub(Var(x[3]), Var(x[1]))),
                 Square(Sub(Var(x[4]), Var(x[2]))))),
        Const(d))

\* PointOnPointError(x): PointPointDistanceError with the target 0
PointOnPoint(x) == PointPointDistance(x, 0)

\* SectionSectionParallelError(x): the cross product of the direction
\* vectors (x1, x2) and (x3, x4)
SectionSectionParallel(x) ==
    Sub(Mul(Var(x[1]), Var(x[4])), Mul(Var(x[2]), Var(x[3])))

\* SectionSectionPerpendicularError(x): the dot product of the direction
\* vectors (x1, x2) and (x3, x4)
SectionSectionPerpendicular(x) ==
    Add(Mul(Var(x[1]), Var(x[3])), Mul(Var(x[2]), Var(x[4])))

Values == 0..MaxValue

\* the lists of Variables a residual of four unknowns is built over
VariableLists == {<<1, 2, 3, 4>>, <<2, 3, 4, 5>>}

\* the expressions the constructors of the kinds build over x
KindExpressions(x) ==
    {PointPointDistance(x, d) : d \in Values}
        \cup {PointOnPoint(x), SectionSectionParallel(x),
              SectionSectionPerpendicular(x)}

NotImplemented == "std::runtime_error: Not implemented"
NullDereference == "crash: c_f is nullptr"
Indeterminate == [indeterminate |-> TRUE]

Range(x) == {x[i] : i \in 1..Len(x)}

\* a call that changes nothing of the residual
Call(name, a, r, f) ==
    /\ made
    /\ op' = name
    /\ arg' = a
    /\ ret' = r
    /\ fault' = f
    /\ UNCHANGED <<made, m_X, c_f, val>>
    /\ UNCHANGED qrVars
    /\ UNCHANGED grVars

\* ErrorFunctions(x): m_X(x), c_f(nullptr)
ConstructErrorFunctions(x) ==
    /\ ~made
    /\ made' = TRUE
    /\ m_X' = x
    /\ c_f' = NullPtr
    /\ op' = "ErrorFunctions"
    /\ arg' = x
    /\ ret' = NoValue
    /\ fault' = NoFault
    /\ UNCHANGED val
    /\ UNCHANGED qrVars
    /\ UNCHANGED grVars

\* the constructor of a kind: ErrorFunctions(x), then c_f is the formula f
ConstructKind(x, f) ==
    /\ ~made
    /\ made' = TRUE
    /\ m_X' = x
    /\ c_f' = f
    /\ op' = "Kind"
    /\ arg' = x
    /\ ret' = NoValue
    /\ fault' = NoFault
    /\ UNCHANGED val
    /\ UNCHANGED qrVars
    /\ UNCHANGED grVars

\* the caller gives Variable u the value v
SetValue(u, v) ==
    /\ val[u] # v
    /\ val' = [val EXCEPT ![u] = v]
    /\ op' = "setValue"
    /\ arg' = u
    /\ ret' = NoValue
    /\ fault' = NoFault
    /\ UNCHANGED <<made, m_X, c_f>>
    /\ UNCHANGED qrVars
    /\ UNCHANGED grVars

\* a call through c_f == nullptr is undefined: it crashes, or goes on with
\* an indeterminate value
ThroughNull(name, a) ==
    \/ Call(name, a, NoValue, NullDereference)
    \/ Call(name, a, Indeterminate, NoFault)

\* ErrorFunctions::getVariables()
GetVariables == Call("getVariables", NoValue, m_X, NoFault)

\* ErrorFunctions::evaluate(): c_f->evaluate()
Evaluate ==
    IF c_f = NullPtr THEN ThroughNull("evaluate", NoValue)
    ELSE Call("evaluate", NoValue, Eval(c_f, val), NoFault)

\* ErrorFunctions::derivative(var): c_f->derivative(var)
Derivative(u) ==
    IF c_f = NullPtr THEN ThroughNull("derivative", u)
    ELSE Call("derivative", u, Deriv(c_f, u), NoFault)

\* clone() as a shallow copy: the owned expression is handed out
CloneShallow == Call("clone", NoValue, c_f, NoFault)

\* ErrorFunctions::clone(): throw std::runtime_error("Not implemented")
Clone == Call("clone", NoValue, NoValue, NotImplemented)

NextEF ==
    \/ \E x \in VariableLists \cup {<< >>} : ConstructErrorFunctions(x)
    \/ \E x \in VariableLists : \E f \in KindExpressions(x) : ConstructKind(x, f)
    \/ \E u \in Unknowns : \E v \in Values : SetValue(u, v)
    \/ GetVariables
    \/ Evaluate
    \/ \E u \in Unknowns : Derivative(u)
    \/ Clone

SpecEF == Init /\ [][NextEF]_vars

(***************************************************************************)
(* Graph<VertexType, WeightType, DirectedPolicyType, WeightedPolicyType>.  *)
(* _vertices is a set; _adjacencyList is a function from its keys to the   *)
(* vectors of edges, a vector being a sequence.  The two policies are      *)
(* fixed when the object is constructed.                                   *)
(***************************************************************************)
Vertices == 1..MaxVertex

\* the weights passed to addEdge; 0 is WeightType()
Weights == 0..MaxWeight

WeightMissing == "std::invalid_argument: should be use weight arg in weighted graph."
WeightGiven == "std::invalid_argument: do not use weight arg in unweighted graph."
IteratorInvalidated == "crash: vector erased while a range-for iterates it"

\* EdgeType(from, to, weight)
Edge(from, to, weight) == [from |-> from, to |-> to, weight |-> weight]

\* m[v] = s for a std::unordered_map m: the entry is made if there is none
Put(m, v, s) == [x \in DOMAIN m \cup {v} |-> IF x = v THEN s ELSE m[x]]

\* m.erase(v)
Erase(m, v) == [x \in DOMAIN m \ {v} |-> m[x]]

\* the vector m[v] refers to: a new, empty one if m has no entry for v
At(m, v) == IF v \in DOMAIN m THEN m[v] ELSE << >>

\* edges.erase(std::remove_if(.., edge.to == v), edges.end())
WithoutTo(edges, v) == SelectSeq(edges, LAMBDA edge : edge.to # v)

\* hasEdge(from, to) on the adjacency list m
HasEdgeIn(m, from, to) ==
    /\ from \in DOMAIN m
    /\ \E i \in 1..Len(m[from]) : m[from][i].to = to

\* Graph::hasEdge(from, to)
hasEdge(from, to) == HasEdgeIn(_adjacencyList, from, to)

\* the edge between from and to as the caller counts it: the ordered pair in
\* a directed graph, the unordered pair in an undirected one
EdgeId(from, to) == IF isDirected THEN <<from, to>> ELSE {from, to}

\* the edge id ends or starts in v
Touches(id, v) == IF isDirected THEN id[1] = v \/ id[2] = v ELSE v \in id

\* the object exists and no call has crashed
Alive == constructed /\ fault # IteratorInvalidated

\* what every call of a member function does to op, arg, ret and fault
GraphCall(name, a, r, f) ==
    /\ Alive
    /\ op' = name
    /\ arg' = a
    /\ ret' = r
    /\ fault' = f
    /\ UNCHANGED <<constructed, isDirected, isWeighted>>
    /\ UNCHANGED qrVars
    /\ UNCHANGED efVars

\* a call that returns r or throws f before it has changed anything
GraphUnchanged(name, a, r, f) ==
    /\ GraphCall(name, a, r, f)
    /\ UNCHANGED <<_vertices, _adjacencyList, liveEdges>>

\* Graph(): an empty graph with the two policies of its type
ConstructGraph(directed, weighted) ==
    /\ ~constructed
    /\ constructed' = TRUE
    /\ isDirected' = directed
    /\ isWeighted' = weighted
    /\ _vertices' = {}
    /\ _adjacencyList' = << >>
    /\ liveEdges' = {}
    /\ op' = "Graph"
    /\ arg' = <<directed, weighted>>
    /\ ret' = NoValue
    /\ fault' = NoFault
    /\ UNCHANGED qrVars
    /\ UNCHANGED efVars

\* Graph::addVertex(v); with several arguments, the same for each in turn.
\* emplace leaves an entry that is already there as it is
addVertex(v) ==
    /\ GraphCall("addVertex", v, NoValue, NoFault)
    /\ _vertices' = _vertices \cup {v}
    /\ _adjacencyList' = IF v \in DOMAIN _adjacencyList THEN _adjacencyList
                         ELSE Put(_adjacencyList, v, << >>)
    /\ UNCHANGED liveEdges

\* the index of the first edge of vec that leads to v, Len(vec) + 1 if none
FirstTo(vec, v) ==
    IF \E i \in 1..Len(vec) : vec[i].to = v
    THEN CHOOSE i \in 1..Len(vec) :
            vec[i].to = v /\ \A j \in 1..(i - 1) : vec[j].to # v
    ELSE Len(vec) + 1

\* the targets of vec[from], ..., vec[to]
Targets(vec, from, to) == {vec[i].to : i \in from..to}

\* m with the edges that lead to v erased from the vectors of the keys in S
Clean(m, S, v) ==
    [x \in DOMAIN m |-> IF x \in S THEN WithoutTo(m[x], v) ELSE m[x]]

\* removeVertex(v) in an undirected graph, v a vertex.  The range-for runs
\* over vec = _adjacencyList[v] and erases from the vector of every target.
\* At a self-loop the target is v: vec itself is erased from while the loop
\* runs over it, which is undefined.  The edges before the self-loop have
\* been dealt with by then; from there on the call crashes, or it goes on
\* and reaches whichever of the remaining targets the stale elements of vec
\* still name
removeVertexUndirected(v) ==
    LET vec == At(_adjacencyList, v)
        first == FirstTo(vec, v)
        sure == Targets(vec, 1, Min(first, Len(vec)))
        rest == Targets(vec, 1, Len(vec)) \ sure
    IN  \/ \E reached \in SUBSET rest :
              /\ GraphCall("removeVertex", v, TRUE, NoFault)
              /\ _vertices' = _vertices \ {v}
              /\ _adjacencyList' = Erase(Clean(_adjacencyList, sure \cup reached, v), v)
              /\ liveEdges' = {id \in liveEdges : ~Touches(id, v)}
        \/ /\ first <= Len(vec)
           /\ GraphCall("removeVertex", v, NoValue, IteratorInvalidated)
           /\ _vertices' = _vertices \ {v}
           /\ _adjacencyList' = Clean(_adjacencyList, sure, v)
           /\ UNCHANGED liveEdges

\* removeVertex(v) in a directed graph, v a vertex
removeVertexDirected(v) ==
    /\ GraphCall("removeVertex", v, TRUE, NoFault)
    /\ _vertices' = _vertices \ {v}
    /\ _adjacencyList' =
          LET m == Erase(_adjacencyList, v)
          IN  Clean(m, DOMAIN m, v)
    /\ liveEdges' = {id \in liveEdges : ~Touches(id, v)}

\* Graph::removeVertex(v)
removeVertex(v) ==
    IF v \notin _vertices THEN GraphUnchanged("removeVertex", v, FALSE, NoFault)
    ELSE IF isDirected THEN removeVertexDirected(v)
    ELSE removeVertexUndirected(v)

\* Graph::addEdge(from, to, weight)
addEdge(from, to, weight) ==
    LET a == <<from, to, weight>>
    IN  IF from \notin _vertices \/ to \notin _vertices
        THEN GraphUnchanged("addEdge", a, FALSE, NoFault)
        ELSE IF isWeighted /\ weight = 0
        THEN GraphUnchanged("addEdge", a, NoValue, WeightMissing)
        ELSE IF ~isWeighted /\ weight # 0
        THEN GraphUnchanged("addEdge", a, NoValue, WeightGiven)
        ELSE IF hasEdge(from, to) \/ (~isDirected /\ hasEdge(to, from))
        THEN GraphUnchanged("addEdge", a, FALSE, NoFault)
        ELSE /\ GraphCall("addEdge", a, TRUE, NoFault)
             /\ _adjacencyList' =
                   LET m == Put(_adjacencyList, from,
                                Append(At(_adjacencyList, from), Edge(from, to, weight)))
                   IN  IF isDirected THEN m
                       ELSE Put(m, to, Append(At(m, to), Edge(to, from, weight)))
             /\ liveEdges' = liveEdges \cup {EdgeId(from, to)}
             /\ UNCHANGED _vertices

\* Graph::removeEdge(from, to)
removeEdge(from, to) ==
    LET a == <<from, to>>
    IN  IF from \notin _vertices \/ to \notin _vertices
        THEN GraphUnchanged("removeEdge", a, FALSE, NoFault)
        ELSE LET fromEdges == WithoutTo(At(_adjacencyList, from), to)
                 m == Put(_adjacencyList, from, fromEdges)
                 toEdges == WithoutTo(At(m, to), from)
                 removed == \/ Len(fromEdges) # Len(At(_adjacencyList, from))
                            \/ (~isDirected /\ Len(toEdges) # Len(At(m, to)))
             IN  /\ GraphCall("removeEdge", a, removed, NoFault)
                 /\ _adjacencyList' = IF isDirected THEN m ELSE Put(m, to, toEdges)
                 /\ liveEdges' = IF removed THEN liveEdges \ {EdgeId(from, to)}
                                 ELSE liveEdges
                 /\ UNCHANGED _vertices

\* the std::unordered_set<EdgeType> that edgeCount fills: every edge of
\* every vector, equal edges once
targetEdges ==
    UNION {{_adjacencyList[x][i] : i \in 1..Len(_adjacencyList[x])} :
             x \in DOMAIN _adjacencyList}

\* Graph::edgeCount()
edgeCount ==
    GraphUnchanged("edgeCount", NoValue,
                   IF isDirected THEN Cardinality(targetEdges)
                   ELSE Cardinality(targetEdges) \div 2,
                   NoFault)

NextGraph ==
    \/ \E directed \in BOOLEAN : \E weighted \in BOOLEAN :
          ConstructGraph(directed, weighted)
    \/ \E v \in Vertices : addVertex(v)
    \/ \E v \in Vertices : removeVertex(v)
    \/ \E from \in Vertices : \E to \in Vertices : \E weight \in Weights :
          addEdge(from, to, weight)
    \/ \E from \in Vertices : \E to \in Vertices : removeEdge(from, to)
    \/ edgeCount

SpecGraph == Init /\ [][NextGraph]_vars

\* the whole program, whose three components share no state: each claim is
\* checked under the specification of its component
Next == NextQR \/ NextEF \/ NextGraph

Spec == Init /\ [][Next]_vars

(***************************************************************************)
(* Linear algebra the claims are stated in.  None of it is computed by the *)
(* program.                                                                *)
(***************************************************************************)
\* the columns of A listed in the sequence S, as a matrix
Columns(A, S) ==
    [rows |-> A.rows, cols |-> Len(S),
     a |-> [i \in 1..A.rows |-> [j \in 1..Len(S) |-> A.a[i][S[j]]]]]

\* the elements of a set of column indices in increasing order
RECURSIVE Ascending(_)
Ascending(S) ==
    IF S = {} THEN << >>
    ELSE LET x == CHOOSE y \in S : \A z \in S : z <= y
         IN  Append(Ascending(S \ {x}), x)

\* the Gram determinant of the columns S of A: zero iff they are linearly
\* dependent
GramDet(A, S) ==
    LET C == Columns(A, Ascending(S)) IN Det(MatMul(Transpose(C), C))

Independent(A, S) == GramDet(A, S) # Zero

\* the rank of the columns S of A
Rank(A, S) ==
    LET sizes == {Cardinality(T) : T \in {U \in SUBSET S : Independent(A, U)}}
    IN  CHOOSE k \in sizes : \A l \in sizes : l <= k

\* A has linearly independent columns
FullColumnRank(A) == Independent(A, 1..A.cols)

\* column i of A is a linear combination of the columns before it
DependentOnPrevious(A, i) == Rank(A, 1..i) = Rank(A, 1..(i - 1))

\* the distance of column i of A from the span of the columns before it,
\* these being independent: sqrt(GramDet(1..i) / GramDet(1..i-1))
ResidualNorm(A, i) ==
    NumSqrt(NumDiv(GramDet(A, 1..i), GramDet(A, 1..(i - 1))))

\* every column of A is farther than 1e-10 from the span of the columns
\* before it
NumericallyFullColumnRank(A) ==
    \A i \in 1..A.cols :
        /\ Independent(A, 1..(i - 1))
        /\ NumGtPow10(ResidualNorm(A, i), EpsExp)

NumAbs(x) == [x EXCEPT !.n = Abs(x.n)]

\* |x - y| <= 1e-8, the "approximately equal" of the documentation
ApproxEq(x, y) == ~NumGtPow10(NumAbs(NumSub(x, y)), 8)

\* X and Y have the same shape and entries that differ by at most 1e-8
ApproxMat(X, Y) ==
    /\ X.rows = Y.rows
    /\ X.cols = Y.cols
    /\ \A i \in 1..X.rows : \A j \in 1..X.cols : ApproxEq(X.a[i][j], Y.a[i][j])

ZeroVector(m) == [k \in 1..m |-> Zero]

Decompositions == {"qr", "qrCGS", "qrMGS"}

(***************************************************************************)
(* The claims.                                                             *)
(***************************************************************************)

\* C1, as amended: after qrCGS (qr) or qrMGS on a matrix A with m >= n whose
\* every column lies farther than the 1e-10 tolerance from the span of the
\* columns before it, Q^T * Q = I_n and Q * R = A, exactly.
C1_OrthonormalFactorsAboveTolerance ==
    (Decomposed /\ _A.rows >= _A.cols /\ NumericallyFullColumnRank(_A))
        => /\ MatMul(Transpose(_Q), _Q) = Identity(_A.cols)
           /\ MatMul(_Q, _R) = _A

\* C1, witness: qrMGS has run on a 2 x 2 matrix of full rank whose columns
\* are not orthogonal and whose first column has an irrational norm.
C1_Witness ==
    /\ op = "qrMGS"
    /\ _A.rows = 2 /\ _A.cols = 2
    /\ NumericallyFullColumnRank(_A)
    /\ _R.a[1][2] # Zero
    /\ _R.a[1][1].r # 1

\* C1, as claimed: after a decomposition of any A with m >= n and linearly
\* independent columns, Q^T * Q = I_n and Q * R = A within 1e-8.
C1_OrthonormalFactorsFullRank ==
    (Decomposed /\ _A.rows >= _A.cols /\ FullColumnRank(_A))
        => /\ ApproxMat(MatMul(Transpose(_Q), _Q), Identity(_A.cols))
           /\ ApproxMat(MatMul(_Q, _R), _A)

\* x is a matrix of rational entries with A * x = b.  (For a nonsingular A
\* and b of rational entries the one solution has rational entries.)
Solves(A, x, b) ==
    /\ x # NoValue
    /\ x.rows = A.cols
    /\ \A i \in 1..x.rows : \A j \in 1..x.cols : x.a[i][j].r = 1
    /\ MatMul(A, x) = b

\* C2, as claimed: solve(b) on a decomposed square matrix A of full rank
\* returns the x with A * x = b.
C2_SolveReturnsSolution ==
    (op = "solve" /\ _A.rows = _A.cols /\ NumericallyFullColumnRank(_A))
        => fault = NoFault /\ Solves(_A, ret, arg)

\* C3: the constructor throws on a matrix with no row or no column and
\* leaves no QR object; on any other matrix it succeeds and holds the
\* matrix; and a decomposition of the 1 x 1 zero matrix completes with
\* R(0,0) = 0.
C3_ConstructorValidates ==
    /\ op = "QR" =>
          IF arg.rows = 0 \/ arg.cols = 0
          THEN fault = RuntimeError /\ ~built /\ _A = EmptyMatrix
          ELSE fault = NoFault /\ built /\ _A = arg
    /\ (op \in Decompositions /\ _A = ZeroMatrix(1, 1)) =>
          fault = NoFault /\ _R = ZeroMatrix(1, 1)

\* C3, witness: the constructor was called on a matrix with rows but no
\* column, threw, and no QR object exists.
C3_Witness ==
    /\ op = "QR"
    /\ arg.rows > 0 /\ arg.cols = 0
    /\ fault = RuntimeError
    /\ ~built

\* C4, as claimed: a call of qrIGS, qrBGS, qrRGS, qrCGSP, qrHouseholder or
\* qrGivens ends in a "not implemented" fault, never in a normal return.
C4_UnimplementedStrategyFaults ==
    op \in Unimplemented => fault # NoFault

\* the columns before column i that the decomposition kept: those with a
\* non-zero column in Q
KeptBefore(i) == {j \in 1..(i - 1) : j <= _Q.cols /\ GetCol(_Q, j) # ZeroVector(_Q.rows)}

\* C5, as amended: after qrCGS or qrMGS, no fault was raised and every
\* column i <= min(m, n) of A that is a linear combination of the columns
\* before it that the decomposition kept (those whose residual norm
\* exceeded 1e-10) has R(i,i) = 0 and the zero vector as column i of Q.
C5_DependentOnKeptColumnIsDropped ==
    /\ op \in Decompositions => fault = NoFault
    /\ Decomposed =>
         \A i \in 1..Min(_A.rows, _A.cols) :
            ~Independent(_A, KeptBefore(i) \cup {i})
                => _R.a[i][i] = Zero /\ GetCol(_Q, i) = ZeroVector(_A.rows)

\* C5, witness: qrCGS has run on a 2 x 2 matrix whose second column equals
\* its first, which is not zero, and whose first column was kept.
C5_Witness ==
    /\ op = "qrCGS"
    /\ _A.rows = 2 /\ _A.cols = 2
    /\ GetCol(_A, 1) = GetCol(_A, 2)
    /\ KeptBefore(2) = {1}
    /\ _R.a[1][2] # Zero
    /\ _R.a[2][2] = Zero

\* C5, as claimed: after qrCGS or qrMGS, no fault was raised and every
\* column i <= min(m, n) of A that is a linear combination of the columns
\* before it has R(i,i) = 0 (within 1e-8) and the zero vector as column i
\* of Q.
C5_DependentColumnIsDropped ==
    /\ op \in Decompositions => fault = NoFault
    /\ Decomposed =>
         \A i \in 1..Min(_A.rows, _A.cols) :
            DependentOnPrevious(_A, i)
                => /\ ApproxEq(_R.a[i][i], Zero)
                   /\ GetCol(_Q, i) = ZeroVector(_A.rows)

\* C6, as claimed: once a decomposition has run, Q * R = A within 1e-8,
\* whatever the shape and the rank of A.
C6_ProductReproducesA ==
    Decomposed => ApproxMat(MatMul(_Q, _R), _A)

\* C9: once a decomposition has run, Q is m x min(m,n), R is min(m,n) x n
\* and R(i,j) = 0 for every i > j.
C9_ShapesAndUpperTriangular ==
    Decomposed =>
        LET min_mn == Min(_A.rows, _A.cols)
        IN  /\ _Q.rows = _A.rows /\ _Q.cols = min_mn
            /\ _R.rows = min_mn /\ _R.cols = _A.cols
            /\ \A i \in 1.._R.rows : \A j \in 1.._R.cols :
                  i > j => _R.a[i][j] = Zero

\* C9, witness: qrCGS has run on a 2 x 2 matrix and stored a non-zero
\* projection coefficient above the diagonal of R.
C9_Witness ==
    /\ op = "qrCGS"
    /\ _R.rows = 2 /\ _R.cols = 2
    /\ _R.a[1][2] # Zero
    /\ _R.a[2][2] # Zero

\* C10, as claimed: qrCGS and qrMGS compute the same Q and the same R from
\* every matrix, those with a column whose residual norm is non-zero and at
\* most 1e-10 included.
C10_ClassicalEqualsModified ==
    /\ op \in {"qr", "qrCGS"} => [Q |-> _Q, R |-> _R] = MGS(_A)
    /\ op = "qrMGS" => [Q |-> _Q, R |-> _R] = CGS(_A)

\* the expression f evaluates to 0 under every valuation of the Variables
ZeroEverywhere(f) == \A w \in [Unknowns -> Values] : Eval(f, w) = Zero

\* C7: clone() throws "Not implemented", returns nothing, and leaves the
\* dependency list and the owned expression as they were.
C7_CloneThrows ==
    [][op' = "clone" =>
          /\ fault' = NotImplemented
          /\ ret' = NoValue
          /\ m_X' = m_X
          /\ c_f' = c_f]_vars

\* C7, witness: clone() was called on a residual of four unknowns that owns
\* an expression.
C7_Witness ==
    /\ op = "clone"
    /\ fault = NotImplemented
    /\ Len(m_X) = 4
    /\ c_f # NullPtr

\* C8, as claimed: derivative(u) for a Variable u that getVariables() does
\* not list raises no fault and returns an expression that evaluates to 0
\* whatever the values of the Variables.
C8_DerivativeOfAbsentUnknownIsZero ==
    (op = "derivative" /\ arg \notin Range(m_X))
        => /\ fault = NoFault
           /\ ret # Indeterminate
           /\ ZeroEverywhere(ret)

\* the square matrix M with 1e-8 added to every entry of its diagonal
DiagonalShifted(M) ==
    [rows |-> M.rows, cols |-> M.cols,
     a |-> [i \in 1..M.rows |-> [j \in 1..M.cols |->
              IF i = j THEN SumAdd(TermsOf(M.a[i][j]), {Term(One, 1, 0)})
              ELSE TermsOf(M.a[i][j])]]]

\* some entry of the diagonal of _R is exactly 0
SingularR == \E i \in 1..Min(_R.rows, _R.cols) : _R.a[i][i] = Zero

WellFormed ==
    /\ \A a \in Vertices : \A b \in Vertices : hasEdge(a, b) <=> hasEdge(b, a)
    /\ \A x \in DOMAIN _adjacencyList : \A i \in 1..Len(_adjacencyList[x]) :
          /\ _adjacencyList[x][i].from \in _vertices
          /\ _adjacencyList[x][i].to \in _vertices
    /\ DOMAIN _adjacencyList = _vertices

\* C12, as claimed: in an undirected graph, after any sequence of addVertex,
\* addEdge, removeEdge and removeVertex calls that have returned, hasEdge is
\* symmetric, every stored edge has both its ends in the vertex set, and the
\* adjacency list has an entry for exactly the vertices.
C12_UndirectedWellFormed ==
    (Alive /\ ~isDirected) => WellFormed

\* C13, as claimed: edgeCount() returns the number of edges whose addEdge
\* returned true and that removeEdge or removeVertex has not removed since,
\* a self-loop counted once like any other edge.
C13_EdgeCountIsNumberOfEdges ==
    (op = "edgeCount" /\ fault = NoFault) => ret = Cardinality(liveEdges)

=============================================================================
